---- MODULE Spec2Model ----
(***************************************************************************)
(* RevU: the review pipelines of .github/bots/llm_reviewer.py (the         *)
(* "Enhanced Python Code Reviewer": parse checks, nine tool adapters, the  *)
(* runtime smoke test with quick fixes) and of app.py (compile check,      *)
(* runtime probe, Ruff, static scans, AI review).                          *)
(*                                                                         *)
(* Text is a sequence of one-character strings.  External collaborators    *)
(* (the tools' processes, the file system, Python's compile) are the       *)
(* environment: each call draws its outcome from the set of outcomes the   *)
(* collaborator can produce.                                               *)
(***************************************************************************)
EXTENDS Integers, Sequences, FiniteSets, TLC

(***************************************************************************)
(* Bounds                                                                  *)
(***************************************************************************)
\* At most this many of the nine external tools report a finding in one
\* review (any of them may be missing, time out or print garbage).
MaxReporting == 1

\* The texts given to apply_quick_fixes have at most this many lines.
MaxLines == 3

\* The clock of the AI-review cache is followed up to this many seconds.
MaxClock == 200

(***************************************************************************)
(* Characters and text helpers (Python str methods, as the code uses them) *)
(***************************************************************************)
NL == "\n"
BS == "\\"
None == "None"

Whitespace == {" ", NL}

\* str.lstrip() and str.rstrip(); text is a tuple of characters.
LStrip(s) ==
    LET keep == {k \in 1..Len(s) : s[k] \notin Whitespace}
    IN IF keep = {} THEN <<>>
       ELSE SubSeq(s, CHOOSE k \in keep : \A m \in keep : k <= m, Len(s))

RStrip(s) ==
    LET keep == {k \in 1..Len(s) : s[k] \notin Whitespace}
    IN IF keep = {} THEN <<>>
       ELSE SubSeq(s, 1, CHOOSE k \in keep : \A m \in keep : m <= k)

\* str.strip() replaced by the identity: "if not code" alone
StripNothing(s) == s

Strip(s) == LStrip(RStrip(s))

StartsWith(s, p) == Len(p) <= Len(s) /\ SubSeq(s, 1, Len(p)) = p

EndsWith(s, p) == Len(p) <= Len(s) /\ SubSeq(s, Len(s) - Len(p) + 1, Len(s)) = p

\* p in s
Contains(s, p) == \E i \in 1..(Len(s) - Len(p) + 1) : SubSeq(s, i, i + Len(p) - 1) = p

\* str.splitlines(): lines without their terminators; a final terminator
\* does not open a further (empty) line.
SplitLines(s) ==
    LET breaks == {k \in 1..Len(s) : s[k] = NL}
        brk(i) == IF i = 0 THEN 0
                  ELSE IF i > Cardinality(breaks) THEN Len(s) + 1
                  ELSE CHOOSE k \in breaks : Cardinality({m \in breaks : m <= k}) = i
        n == Cardinality(breaks) + (IF Len(s) > 0 /\ s[Len(s)] # NL THEN 1 ELSE 0)
    IN [i \in 1..n |-> SubSeq(s, brk(i - 1) + 1, brk(i) - 1)]

\* sep.join(lines)
RECURSIVE Join(_, _)
Join(sep, lines) ==
    IF lines = <<>> THEN <<>>
    ELSE IF Len(lines) = 1 THEN lines[1]
    ELSE lines[1] \o sep \o Join(sep, Tail(lines))

\* s.split("#", 1)[0]
BeforeHash(s) ==
    LET hashes == {k \in 1..Len(s) : s[k] = "#"}
    IN IF hashes = {} THEN s
       ELSE SubSeq(s, 1, (CHOOSE k \in hashes : \A m \in hashes : k <= m) - 1)

(***************************************************************************)
(* Safe quick fixes: llm_reviewer.py, _BLOCK_HEADERS .. apply_quick_fixes   *)
(***************************************************************************)
\* A compiled pattern is a sequence of atoms [c, q]: c is the character the
\* atom accepts ("." accepts any character of a line), q its quantifier.
\* The patterns are raw strings in which every backslash is doubled, so the
\* regex escape "\\" is a literal backslash and the letter after it (s, w)
\* is an ordinary letter carrying the quantifier.
Lit(ch) == [c |-> ch, q |-> "1"]
Star(ch) == [c |-> ch, q |-> "*"]
Plus(ch) == [c |-> ch, q |-> "+"]

RECURSIVE Word(_)
Word(w) == IF w = <<>> THEN <<>> ELSE <<Lit(Head(w))>> \o Word(Tail(w))

\* "^\\s*" : a backslash, then any number of "s"
Lead == <<Lit(BS), Star("s")>>
\* "\\s+" and "\\s*" and "\\w+"
BsPlusS == <<Lit(BS), Plus("s")>>
BsStarS == <<Lit(BS), Star("s")>>
BsPlusW == <<Lit(BS), Plus("w")>>
DotStar == <<Star(".")>>

\* Each entry is the set of alternatives of one pattern; "(X)?Y" is the two
\* alternatives XY and Y.
_BLOCK_HEADERS == <<
    {Lead \o Word(<<"d","e","f">>) \o BsPlusS \o BsPlusW \o BsStarS
          \o <<Lit(BS)>> \o DotStar \o <<Lit(BS)>> \o BsStarS},
    {Lead \o Word(<<"c","l","a","s","s">>) \o BsPlusS \o BsPlusW \o BsStarS},
    {Lead \o Word(<<"i","f">>) \o BsPlusS \o DotStar},
    {Lead \o Word(<<"e","l","i","f">>) \o BsPlusS \o DotStar},
    {Lead \o Word(<<"e","l","s","e">>) \o BsStarS},
    {Lead \o Word(<<"f","o","r">>) \o BsPlusS \o DotStar},
    {Lead \o Word(<<"w","h","i","l","e">>) \o BsPlusS \o DotStar},
    {Lead \o Word(<<"t","r","y">>) \o BsStarS},
    {Lead \o Word(<<"e","x","c","e","p","t">>) \o BsPlusS \o DotStar \o BsStarS,
     Lead \o Word(<<"e","x","c","e","p","t">>) \o BsStarS},
    {Lead \o Word(<<"f","i","n","a","l","l","y">>) \o BsStarS},
    {Lead \o Word(<<"w","i","t","h">>) \o BsPlusS \o DotStar} >>

Fits(atom, ch) == IF atom.c = "." THEN ch # NL ELSE ch = atom.c

\* rx.match(line): the pattern matches a prefix of the line.
RECURSIVE MatchAt(_, _, _, _)
MatchAt(pat, i, line, j) ==
    IF i > Len(pat) THEN TRUE
    ELSE LET a == pat[i]
             here == j <= Len(line) /\ Fits(a, line[j])
         IN CASE a.q = "1" -> here /\ MatchAt(pat, i + 1, line, j + 1)
              [] a.q = "*" -> MatchAt(pat, i + 1, line, j)
                              \/ (here /\ MatchAt(pat, i, line, j + 1))
              [] a.q = "+" -> here /\ (MatchAt(pat, i + 1, line, j + 1)
                                       \/ MatchAt(pat, i, line, j + 1))

RxMatch(alts, line) == \E pat \in alts : MatchAt(pat, 1, line, 1)

\* the "for rx in header_regexes: if rx.match(line): ... break" loop
IsHeader(line) == \E k \in 1..Len(_BLOCK_HEADERS) : RxMatch(_BLOCK_HEADERS[k], line)

_needs_colon(line) ==
    LET stripped == Strip(line)
        no_comment == RStrip(BeforeHash(stripped))
    IN IF stripped = <<>> \/ StartsWith(stripped, <<"#">>) THEN FALSE
       ELSE ~EndsWith(no_comment, <<":">>)

AutoFixed == <<":", " ", " ", "#", " ", "[", "A", "U", "T", "O", "-", "F", "I", "X", "E", "D", "]">>

\* "\\n" in the source: a backslash followed by the letter n
JoinSep == <<BS, "n">>

FixLine(line) == IF IsHeader(line) /\ _needs_colon(line) THEN RStrip(line) \o AutoFixed ELSE line

\* the loop over enumerate(lines): the new lines and the edited numbers
FixedLines(lines) == [k \in 1..Len(lines) |-> FixLine(lines[k])]

RECURSIVE EditedFrom(_, _)
EditedFrom(lines, k) ==
    IF k > Len(lines) THEN <<>>
    ELSE (IF IsHeader(lines[k]) /\ _needs_colon(lines[k]) THEN <<k>> ELSE <<>>)
         \o EditedFrom(lines, k + 1)

apply_quick_fixes(original) ==
    LET lines == SplitLines(original)
        joined == Join(JoinSep, FixedLines(lines))
        fixed == IF EndsWith(original, JoinSep) /\ ~EndsWith(joined, JoinSep)
                 THEN joined \o JoinSep ELSE joined
    IN [fixed |-> fixed, edited |-> EditedFrom(lines, 1)]

(***************************************************************************)
(* Inputs: the snippets a user can submit                                  *)
(***************************************************************************)
\* DEEP stands for an expression nested beyond the interpreter's recursion
\* limit (for instance 3000 chained "1+"): one pseudo-character.
DEEP == "DEEP"

S_empty == <<>>
S_blank == <<" ", NL>>
S_import == <<"i", "m", "p", "o", "r", "t", " ", "x">>
\* an "if" header without its colon, then its body
S_if == <<"i", "f", " ", "x", NL, " ", "y">>
\* an unterminated string, then a line the header patterns accept
S_bs == <<"\"", NL, BS, "i", "f", BS, "s", "\"", "#">>
\* a line the header patterns accept, not valid Python with or without colon
S_bsif == <<BS, "i", "f", BS, "s", " ", "x">>
S_deep == <<"x", "=", DEEP>>

Snippets == {S_empty, S_blank, S_import, S_if, S_bs, S_bsif, S_deep}

Languages == {"Auto", "Python", "JavaScript / Other"}

(***************************************************************************)
(* Python's parser and compiler on those snippets (and on their fixes)     *)
(***************************************************************************)
\* What apply_quick_fixes makes of S_bs: one line, a string literal followed
\* by a comment.
S_bs_fixed == <<"\"", BS, "n", BS, "i", "f", BS, "s", "\"", "#">> \o AutoFixed

\* The texts that compile.
CompilesOk == {S_empty, S_blank, S_import, S_bs_fixed}

\* compile(src, "<input>", "exec"): "ok", or the name of the exception.
PyCompile(src) ==
    IF DEEP \in {src[k] : k \in 1..Len(src)} THEN "RecursionError"
    ELSE IF src \in CompilesOk THEN "ok"
    ELSE "SyntaxError"

\* ast.parse(src)
PyAstParse(src) == PyCompile(src)

\* tokenize.generate_tokens over src: none of the snippets has an indentation
\* or end-of-file token error.
PyTokenize(src) == "ok"

(***************************************************************************)
(* Helpers: _tmp_py, _run, _norm_row                                       *)
(***************************************************************************)
\* f.write in _tmp_py / open(...).write: the file exists once it is opened
\* (delete=False); the write succeeds or raises.
WriteOutcomes == {"ok", "fail"}

\* What a spawned command can do.  out is the kind of its stdout:
\*   ""         nothing (or only blanks)
\*   "items"    well-formed output in the tool's format, one diagnostic
\*   "garbage"  output that is not in the tool's format
OutKinds == {"", "items", "garbage"}
ExitCodes == {0, 1, 127}

ProcOutcomes ==
    {[kind |-> "notfound", rc |-> 0, out |-> "", err |-> ""],
     [kind |-> "timeout", rc |-> 0, out |-> "", err |-> ""]}
    \cup [kind : {"exit"}, rc : ExitCodes, out : OutKinds, err : {""}]

\* The snippet run by the smoke test: exit code, stdout and stderr text.
PyRunOutcomes ==
    {[kind |-> "notfound", rc |-> 0, out |-> "", err |-> ""],
     [kind |-> "timeout", rc |-> 0, out |-> "", err |-> ""]}
    \cup [kind : {"exit"}, rc : {0, 1}, out : {"", "text"}, err : {"", "Traceback"}]

\* returncode of a call that produced none
NoRc == -1

\* _run without its "except FileNotFoundError" clause
_run_notfound_uncaught(cmd, timeout, o) ==
    CASE o.kind = "notfound" ->
            [rc |-> NoRc, out |-> "", err |-> "", child |-> "none", raised |-> "FileNotFoundError"]
      [] o.kind = "timeout" ->
            [rc |-> 124, out |-> "", err |-> "timeout", child |-> "killed", raised |-> None]
      [] OTHER ->
            [rc |-> o.rc, out |-> o.out, err |-> o.err, child |-> "exited", raised |-> None]

\* _run waiting with a timeout on a process it does not kill on expiry
_run_no_kill(cmd, timeout, o) ==
    CASE o.kind = "notfound" ->
            [rc |-> 127, out |-> "", err |-> cmd[1] \o ": not installed", child |-> "none",
             raised |-> None]
      [] o.kind = "timeout" ->
            [rc |-> 124, out |-> "", err |-> "timeout", child |-> "running", raised |-> None]
      [] OTHER ->
            [rc |-> o.rc, out |-> o.out, err |-> o.err, child |-> "exited", raised |-> None]

\* _run: subprocess.run with capture and timeout.  child is the state of the
\* spawned process when _run returns: subprocess.run kills and reaps the
\* child before it raises TimeoutExpired.  raised is the exception that
\* leaves _run (None: it returns rc, out, err).
_run(cmd, timeout, o) ==
    CASE o.kind = "notfound" ->
            [rc |-> 127, out |-> "", err |-> cmd[1] \o ": not installed", child |-> "none",
             raised |-> None]
      [] o.kind = "timeout" ->
            [rc |-> 124, out |-> "", err |-> "timeout", child |-> "killed", raised |-> None]
      [] OTHER ->
            [rc |-> o.rc, out |-> o.out, err |-> o.err, child |-> "exited", raised |-> None]

\* Numbers the code may hold as None or turn into "" are integers here:
\* NoneNum is None, EmptyCell is the "" that "x or ''" stores.
NoneNum == -1
EmptyCell == -2

\* "x or ''" on text and on numbers: None, "" and 0 all become ""
OrEmpty(v) == IF v = None \/ v = "" THEN "" ELSE v
OrEmptyNum(n) == IF n = NoneNum \/ n = 0 THEN EmptyCell ELSE n

_norm_row(source, rule, typ, msg, line, col, file, sev) ==
    [Source |-> source, Rule |-> OrEmpty(rule), Type |-> OrEmpty(typ), Message |-> OrEmpty(msg),
     Line |-> OrEmptyNum(line), Column |-> OrEmptyNum(col), File |-> OrEmpty(file),
     Severity |-> OrEmpty(sev)]

\* tempfile names: the k-th temporary file of a script run
TmpNames == <<"tmp1", "tmp2", "tmp3", "tmp4", "tmp5", "tmp6", "tmp7", "tmp8", "tmp9", "tmp10",
              "tmp11", "tmp12">>

(***************************************************************************)
(* External tools: the adapters of llm_reviewer.py                         *)
(***************************************************************************)
\* The one diagnostic of a well-formed tool output about the file tmp.
ToolItem(tmp) ==
    [code |-> "X1", message |-> "msg", row |-> 1, column |-> 1, filename |-> tmp,
     severity |-> "LOW"]

Returned(rows, reason) == [rows |-> rows, reason |-> reason, raised |-> None]
Raised(exc) == [rows |-> <<>>, reason |-> None, raised |-> exc]

\* json.loads(out) followed by the loop over the payload: the exception it
\* raises, or None.
JsonError(out) == IF out = "garbage" THEN "JSONDecodeError" ELSE None

\* Each adapter below is the body of its try block, given the temporary file
\* and what _run returned.
run_ruff(tmp, r, item) ==
    IF r.rc = 127 THEN Returned(<<>>, "Ruff not installed")
    ELSE IF r.out = "" THEN Returned(<<>>, None)
    ELSE IF JsonError(r.out) # None THEN Raised(JsonError(r.out))
    ELSE Returned(<<_norm_row("Ruff", item.code, "Lint/Style", item.message,
                                 item.row, item.column, item.filename, None)>>, None)

run_black_check(tmp, r) ==
    IF r.rc = 127 THEN Returned(<<>>, "Black not installed")
    ELSE IF r.rc # 0
         THEN Returned(<<_norm_row("Black", "format", "Formatting", "File would be reformatted",
                                   NoneNum, NoneNum, "<input>", None)>>, None)
         ELSE Returned(<<>>, None)

run_isort_check(tmp, r) ==
    IF r.rc = 127 THEN Returned(<<>>, "isort not installed")
    ELSE IF r.rc # 0
         THEN Returned(<<_norm_row("isort", "imports", "Import Order", "Imports not correctly sorted",
                                   NoneNum, NoneNum, "<input>", None)>>, None)
         ELSE Returned(<<>>, None)

\* mypy and pydocstyle print lines; a line that names tmp and has integer
\* positions is a diagnostic ("items"), any other line is skipped, by the
\* test for tmp or by the inner try ("garbage").  pydocstyle's message is
\* the whole line, file name included.
run_mypy(tmp, r, item) ==
    IF r.rc = 127 THEN Returned(<<>>, "mypy not installed")
    ELSE IF r.out = "items"
         THEN Returned(<<_norm_row("mypy", "mypy", "TypeError/Typing", item.message,
                                      item.row, item.column, "<input>", None)>>, None)
         ELSE Returned(<<>>, None)

run_bandit(tmp, r, item) ==
    IF r.rc = 127 THEN Returned(<<>>, "Bandit not installed")
    ELSE IF r.out # "" /\ JsonError(r.out) = None
         THEN Returned(<<_norm_row("Bandit", item.code, "Security", item.message,
                                      item.row, NoneNum, item.filename, item.severity)>>, None)
         ELSE Returned(<<>>, None)

run_pydocstyle(tmp, r, item) ==
    IF r.rc = 127 THEN Returned(<<>>, "pydocstyle not installed")
    ELSE IF r.out = "items"
         THEN Returned(<<_norm_row("pydocstyle", item.code, "Docstring",
                                      tmp \o ":1 " \o item.message,
                                      item.row, NoneNum, "<input>", None)>>, None)
         ELSE Returned(<<>>, None)

run_pylint(tmp, r, item) ==
    IF r.rc = 127 THEN Returned(<<>>, "pylint not installed")
    ELSE IF r.out # "" /\ JsonError(r.out) = None
         THEN Returned(<<_norm_row("Pylint", item.code, "Code Smell", item.message,
                                      item.row, item.column, item.filename, item.severity)>>, None)
         ELSE Returned(<<>>, None)

run_radon_complexity(tmp, r, item) ==
    IF r.rc = 127 THEN Returned(<<>>, "radon not installed")
    ELSE IF r.out # "" /\ JsonError(r.out) = None
         THEN Returned(<<_norm_row("Radon", "CC", "Complexity", item.message,
                                      item.row, NoneNum, item.filename, None)>>, None)
         ELSE Returned(<<>>, None)

run_vulture(tmp, r, item) ==
    IF r.rc = 127 THEN Returned(<<>>, "vulture not installed")
    ELSE IF r.out # "" /\ JsonError(r.out) = None
         THEN Returned(<<_norm_row("Vulture", item.code, "Dead Code", item.message,
                                      item.row, NoneNum, item.filename, "conf")>>, None)
         ELSE Returned(<<>>, None)

\* The adapters in the order analyze calls them, with their executable and
\* the timeout they pass to _run.
Tools == <<"Ruff", "Black", "isort", "mypy", "Bandit", "pydocstyle", "Pylint", "Radon", "Vulture">>

ToolCmd(tool) ==
    CASE tool = "Ruff" -> "ruff" [] tool = "Black" -> "black" [] tool = "isort" -> "isort"
      [] tool = "mypy" -> "mypy" [] tool = "Bandit" -> "bandit"
      [] tool = "pydocstyle" -> "pydocstyle" [] tool = "Pylint" -> "pylint"
      [] tool = "Radon" -> "radon" [] tool = "Vulture" -> "vulture"

\* timeouts, in tenths of a second; NoTimeout is a call without timeout
DefaultTimeout == 300
PylintTimeout == 600
SmokeTimeout == 30
ProbeTimeout == 35
NoTimeout == 0

ToolTimeout(tool) == IF tool = "Pylint" THEN PylintTimeout ELSE DefaultTimeout

\* the body of the adapter of a tool, given the diagnostic its output holds
AdapterRows(tool, tmp, r, item) ==
    CASE r.raised # None -> Raised(r.raised)
      [] tool = "Ruff" -> run_ruff(tmp, r, item)
      [] tool = "Black" -> run_black_check(tmp, r)
      [] tool = "isort" -> run_isort_check(tmp, r)
      [] tool = "mypy" -> run_mypy(tmp, r, item)
      [] tool = "Bandit" -> run_bandit(tmp, r, item)
      [] tool = "pydocstyle" -> run_pydocstyle(tmp, r, item)
      [] tool = "Pylint" -> run_pylint(tmp, r, item)
      [] tool = "Radon" -> run_radon_complexity(tmp, r, item)
      [] tool = "Vulture" -> run_vulture(tmp, r, item)

AdapterBody(tool, tmp, r) == AdapterRows(tool, tmp, r, ToolItem(tmp))

\* The keys of all_results in insertion order (the order flatten follows).
ToolOrder == <<"AST", "tokenize", "parso">> \o Tools \o <<"Runtime">>
ToolNames == {ToolOrder[k] : k \in 1..Len(ToolOrder)}

(***************************************************************************)
(* Runtime smoke test (llm_reviewer.py)                                    *)
(***************************************************************************)
\* difflib.unified_diff joined: empty when the two texts are equal
UnifiedDiff(a, b) == IF a = b THEN "" ELSE "--- original +++ fixed"

SmokeCmd(treat_warnings_as_errors, tmp) ==
    <<"python">> \o (IF treat_warnings_as_errors THEN <<"-W", "error">> ELSE <<>>)
                 \o <<"-I", "-X", "faulthandler", tmp>>

\* Optional values that are not strings or numbers: Nothing is None
Nothing == <<>>
Some(v) == <<v>>

NoRun == [rc |-> NoRc, out |-> "", err |-> "", child |-> "none", raised |-> None]

\* What run_smoke_test hands back.  rows, note, used_code and diff_text are
\* the returned tuple; raised is the exception that left the function
\* instead; cmd and r are the command it ran (<<>> when none) and what _run
\* returned; wrote tells whether the temporary file was created; edited is
\* the quick-fix edit list (Nothing when apply_quick_fixes was not called).
SmokeResult(rows, note, used_code, diff_text, raised, cmd, r, wrote, edited) ==
    [rows |-> rows, note |-> note, used_code |-> used_code, diff_text |-> diff_text,
     raised |-> raised, cmd |-> cmd, r |-> r, wrote |-> wrote, edited |-> edited]

SmokeSkip(note, edited) ==
    SmokeResult(<<>>, note, Nothing, None, None, <<>>, NoRun, FALSE, edited)

\* lines 497-511: write the file, run it, report the first line of the output
SmokeExecute(used_code, note, diff_text, edited, treat_warnings_as_errors, tmp, w, o) ==
    IF w = "fail"
    THEN SmokeResult(<<>>, None, Nothing, None, "OSError", <<>>, NoRun, TRUE, edited)
    ELSE LET cmd == SmokeCmd(treat_warnings_as_errors, tmp)
             r == _run(cmd, SmokeTimeout, o)
             msg == IF r.err # "" THEN r.err ELSE r.out
             first == IF msg # "" THEN msg ELSE "Runtime error"
             rows == IF r.rc # 0
                     THEN <<_norm_row("Runtime", "", "Runtime", first, NoneNum, NoneNum, "<input>", None)>>
                     ELSE <<>>
         IN IF r.raised # None
            THEN SmokeResult(<<>>, None, Nothing, None, r.raised, cmd, r, TRUE, edited)
            ELSE SmokeResult(rows, note, Some(used_code), diff_text, None, cmd, r, TRUE, edited)

\* _can_compile answering True for every text
_can_compile_always(src) == "True"

\* _can_compile: True, False, or the exception compile raised that is not a
\* SyntaxError (only SyntaxError is caught)
_can_compile(src) ==
    CASE PyCompile(src) = "ok" -> "True"
      [] PyCompile(src) = "SyntaxError" -> "False"
      [] OTHER -> PyCompile(src)

\* run_smoke_test from line 482 on: the probe is enabled
SmokeEnabled(code_text, maybe_fix, treat_warnings_as_errors, tmp, w, o) ==
    IF _can_compile(code_text) \notin {"True", "False"}
    THEN SmokeResult(<<>>, None, Nothing, None, _can_compile(code_text), <<>>, NoRun, FALSE,
                     Nothing)
    ELSE IF _can_compile(code_text) = "True"
    THEN SmokeExecute(code_text, None, None, Nothing, treat_warnings_as_errors, tmp, w, o)
    ELSE IF maybe_fix
    THEN LET qf == apply_quick_fixes(code_text)
         IN IF qf.edited = <<>>
            THEN SmokeSkip("Skipped runtime (does not compile, even after quick fixes)",
                           Some(qf.edited))
            ELSE IF _can_compile(qf.fixed) \notin {"True", "False"}
            THEN SmokeResult(<<>>, None, Nothing, None, _can_compile(qf.fixed), <<>>, NoRun, FALSE,
                             Some(qf.edited))
            ELSE IF _can_compile(qf.fixed) = "True"
            THEN SmokeExecute(qf.fixed, "Applied safe quick fixes on lines",
                              UnifiedDiff(code_text, qf.fixed), Some(qf.edited),
                              treat_warnings_as_errors, tmp, w, o)
            ELSE SmokeSkip("Skipped runtime (does not compile, even after quick fixes)",
                           Some(qf.edited))
    ELSE SmokeSkip("Skipped runtime (does not compile; enable quick fixes to attempt)", Nothing)

\* run_smoke_test without its "if not run_smoke" return
run_smoke_test_ignores_toggle(code_text, maybe_fix, treat_warnings_as_errors, enabled, tmp, w, o) ==
    SmokeEnabled(code_text, maybe_fix, treat_warnings_as_errors, tmp, w, o)

run_smoke_test(code_text, maybe_fix, treat_warnings_as_errors, enabled, tmp, w, o) ==
    IF ~enabled THEN SmokeSkip("Runtime test disabled", Nothing)
    ELSE SmokeEnabled(code_text, maybe_fix, treat_warnings_as_errors, tmp, w, o)

(***************************************************************************)
(* Syntax detectors (llm_reviewer.py)                                      *)
(***************************************************************************)
\* rows, or the exception that is not caught
check_ast_syntax(code_text) ==
    CASE PyAstParse(code_text) = "ok" -> Returned(<<>>, None)
      [] PyAstParse(code_text) = "SyntaxError" ->
            Returned(<<_norm_row("AST", "SyntaxError", "SyntaxError", "invalid syntax",
                                 1, 1, "<input>", None)>>, None)
      [] OTHER -> Raised(PyAstParse(code_text))

check_tokenize(code_text) ==
    CASE PyTokenize(code_text) = "ok" -> Returned(<<>>, None)
      [] PyTokenize(code_text) = "IndentationError" ->
            Returned(<<_norm_row("tokenize", "IndentationError", "SyntaxError", "Indentation error",
                                 1, 1, "<input>", None)>>, None)
      [] PyTokenize(code_text) = "TokenError" ->
            Returned(<<_norm_row("tokenize", "TokenError", "SyntaxError", "EOF",
                                 NoneNum, NoneNum, "<input>", None)>>, None)
      [] OTHER -> Raised(PyTokenize(code_text))

\* parso is an optional import; its tolerant parser reports the syntax
\* errors of the text and swallows its own failures.
check_parso(code_text, installed) ==
    IF ~installed THEN Returned(<<>>, "parso not installed")
    ELSE IF PyAstParse(code_text) = "SyntaxError"
    THEN Returned(<<_norm_row("parso", "SyntaxError", "SyntaxError", "Syntax issue",
                              1, 0, "<input>", None)>>, None)
    ELSE Returned(<<>>, None)

\* flatten: the per-tool lists in the dictionary's insertion order
RECURSIVE FlattenFrom(_, _)
FlattenFrom(all, k) ==
    IF k > Len(ToolOrder) THEN <<>>
    ELSE all[ToolOrder[k]] \o FlattenFrom(all, k + 1)

flatten(all) == FlattenFrom(all, 1)

\* language detection of the run-review block
DetectLanguage(lang, uploaded_py, src) ==
    IF lang # "Auto" THEN lang
    ELSE IF uploaded_py THEN "Python"
    ELSE IF \E tok \in {<<"i","m","p","o","r","t"," ">>, <<"d","e","f"," ">>,
                        <<"c","l","a","s","s"," ">>} : Contains(src, tok)
    THEN "Python"
    ELSE "JavaScript / Other"

(***************************************************************************)
(* app.py: compile check, runtime probe, Ruff, static scans                *)
(***************************************************************************)
detect_language(lang, name_py, src) ==
    IF lang # "Auto" THEN lang
    ELSE IF name_py THEN "Python"
    ELSE IF \E tok \in {<<"i","m","p","o","r","t"," ">>, <<"d","e","f"," ">>,
                        <<"c","l","a","s","s"," ">>, <<"f","r","o","m"," ">>,
                        <<"p","r","i","n","t","(">>} : Contains(src, tok)
    THEN "Python"
    ELSE "JavaScript / Other"

\* compile_check: no record, or one record naming the exception's type
compile_check(src) ==
    IF PyCompile(src) = "ok" THEN <<>>
    ELSE <<[Rule |-> PyCompile(src), Message |-> "error", Line |-> 1, File |-> "<user_code>"]>>

Blockers == {"SyntaxError", "IndentationError", "TabError"}

HasBlockers(comp) == \E k \in 1..Len(comp) : comp[k].Rule \in Blockers

\* What the probed snippet can do: run past the timeout, or exit with a code
\* and some text on its error stream ("Traceback": a traceback, "Warning":
\* warning lines only); made is what it left in its working directory.
ProbeOutcomes ==
    [kind : {"timeout"}, rc : {0}, out : {""}, err : {""}, made : {"nothing", "subdir"}]
    \cup [kind : {"exit"}, rc : {0, 1}, out : {""}, err : {"", "Traceback", "Warning"},
          made : {"nothing", "file", "subdir"}]

\* run_runtime_probe.  The finally clause removes the plain files of the
\* scratch directory and then the directory; a subdirectory makes both
\* os.remove and os.rmdir fail, silently.  A failed write of the script
\* happens before the try block.
run_runtime_probe(src, capture_warnings, w, o) ==
    IF w = "fail"
    THEN [raised |-> "OSError", stdout |-> "", stderr |-> "", rc |-> NoRc, ran |-> FALSE,
          dir_left |-> TRUE, child |-> "none"]
    ELSE IF o.kind = "timeout"
    THEN [raised |-> "TimeoutExpired", stdout |-> "", stderr |-> "", rc |-> NoRc, ran |-> TRUE,
          dir_left |-> (o.made = "subdir"), child |-> "killed"]
    ELSE [raised |-> None, stdout |-> o.out, stderr |-> o.err, rc |-> o.rc, ran |-> TRUE,
          dir_left |-> (o.made = "subdir"), child |-> "exited"]

ProbeCmd(capture_warnings) ==
    <<"PY_EXE", "-I", "-X", "dev">> \o (IF capture_warnings THEN <<"-W", "default">> ELSE <<>>)
                                    \o <<"snippet.py">>

\* parse_first_exception: the last traceback block, else the last non-empty
\* line of the error stream, else nothing
parse_first_exception(stderr) ==
    CASE stderr = "Traceback" ->
            Some([Rule |-> "ZeroDivisionError", Message |-> "division by zero", Line |-> 1,
                  File |-> "snippet.py"])
      [] stderr = "Warning" ->
            Some([Rule |-> "snippet.py", Message |-> "1: DeprecationWarning: msg",
                  Line |-> NoneNum, File |-> "<user_code>"])
      [] OTHER -> Nothing

parse_warnings(stderr) ==
    IF stderr = "Warning"
    THEN <<[Category |-> "DeprecationWarning", Message |-> "msg", Line |-> 1,
            File |-> "snippet.py"]>>
    ELSE <<>>

\* run_static_scans: of its patterns only "eval(" is modelled; no other
\* pattern occurs in the snippets.
run_static_scans(src) ==
    IF Contains(src, <<"e", "v", "a", "l", "(">>)
    THEN <<[Rule |-> "Security", Message |-> "Use of eval()", Severity |-> "High", Line |-> 1,
            File |-> "<user_code>"]>>
    ELSE <<>>

\* run_ruff_on_code: subprocess.run without timeout.  blocked: the call never
\* returns because the tool never exits.
run_ruff_on_code(tmp, o) ==
    CASE o.kind = "notfound" -> [rows |-> <<>>, raised |-> "FileNotFoundError", blocked |-> FALSE]
      [] o.kind = "timeout" -> [rows |-> <<>>, raised |-> None, blocked |-> TRUE]
      [] o.rc \notin {0, 1} -> [rows |-> <<>>, raised |-> "FileNotFoundError", blocked |-> FALSE]
      [] o.out = "" -> [rows |-> <<>>, raised |-> None, blocked |-> FALSE]
      [] JsonError(o.out) # None -> [rows |-> <<>>, raised |-> JsonError(o.out), blocked |-> FALSE]
      [] OTHER -> [rows |-> <<ToolItem(tmp)>>, raised |-> None, blocked |-> FALSE]

\* lines 508-516: the record built from one Ruff item
RuffRecord(item) ==
    [Rule |-> item.code, Message |-> item.message, Line |-> item.row, Column |-> item.column,
     File |-> item.filename]

\* the AI endpoint's answer to one call of _ai_review_once
AiOutcomes == {"ok", "RateLimitError", "APIError", "Exception"}
MaxAttempts == 6

\* "for attempt in range(6)" going round once more
LoopExhaustedLate(k) == k >= MaxAttempts + 1

\* "for attempt in range(6)": the loop is over, the function falls through
LoopExhausted(k) == k >= MaxAttempts

\* @st.cache_data(ttl=120): the entries are keyed by the arguments of the
\* call and hold the returned text and the time it was stored
Ttl == 120

CacheKey(prompt_code, language_hint) == <<prompt_code, language_hint>>

\* a cache that never lets an entry expire
CacheHitIgnoringTtl(c, key, t) == key \in DOMAIN c

CacheHit(c, key, t) == key \in DOMAIN c /\ t - c[key].time < Ttl

CacheStore(c, key, text, t) ==
    [k \in DOMAIN c \cup {key} |-> IF k = key THEN [text |-> text, time |-> t] ELSE c[k]]

\* random.random() of line 408, in tenths of a second
Jitter == {0, 9}

\* a wait that grows by two seconds per attempt
BackoffLinear(k, jitter) == 10 * (2 * k) + jitter

\* line 408: the argument of time.sleep after a RateLimitError in turn k,
\* in tenths of a second
Backoff(k, jitter) == 10 * (2 ^ k) + jitter

\* line 410: the argument of time.sleep after another APIError, in tenths
ApiErrorWait == 20

\* The request being served: its number, its key, the clock when it
\* started, whether an API key was found, the endpoint's last answer, the
\* sleep the last turn of the loop asked for (tenths of a second, 0: none), and the requests served so far (computed: the
\* function body ran, the text did not come from the cache).
NewRequest(prev, key, t, has_key) ==
    [n |-> IF prev = <<>> THEN 1 ELSE prev[1].n + 1,
     key |-> key, start |-> t, has_key |-> has_key, last |-> "None", wait |-> 0,
     log |-> IF prev = <<>> THEN {} ELSE prev[1].log]

Served(r, text, computed, t) ==
    [r EXCEPT !.log = @ \cup {[n |-> r.n, key |-> r.key, time |-> t, text |-> text,
                               computed |-> computed]}]

NoFindings == [compile |-> <<>>, runtime |-> <<>>, warnings |-> <<>>, ruff |-> <<>>,
               security |-> <<>>]

(***************************************************************************)
(* State                                                                   *)
(***************************************************************************)
VARIABLES
    script,     \* which program serves the page: "llm_reviewer" or "app"
    pc,         \* position of the script run started by the button
    code,       \* the submitted text
    language,   \* the language resolved for this review (None before)
    run_smoke, apply_fixes_before_runtime, warnings_as_errors,  \* sidebar toggles
    next_tool,  \* index in Tools of the adapter analyze calls next
    all_results,\* tool name -> finding rows (llm_reviewer.py)
    shown,      \* messages written to the page (warning, info, caption, error)
    tmp_files,  \* temporary files that exist
    next_tmp,   \* names temporary files: the next unused name
    procs,      \* spawned processes still running
    invoked,    \* the commands handed to subprocess.run, with their timeout
    last_run,   \* the last call of _run: the process outcome and what it returned
    ret,        \* what the last adapter call handed back
    smoke,      \* what run_smoke_test handed back (Nothing before)
    report,     \* the rendered report (Nothing before)
    exc,        \* the exception that ended the script run (None if none)
    run_runtime, show_warnings, use_ai,  \* sidebar toggles of app.py
    all_findings, \* section -> records (app.py)
    tmp_dirs,   \* scratch directories that exist
    attempt,    \* cached_ai_review: the loop variable
    ai_calls,   \* calls made to the AI endpoint in this run of the script
    feedback,   \* what cached_ai_review returned (None before)
    probe,      \* what the runtime probe of app.py came back with, if it ran
    qf_in,      \* apply_quick_fixes on its own: the text it is given
    qf_once,    \* what apply_quick_fixes(qf_in) returned (Nothing before)
    qf_twice,   \* what apply_quick_fixes returned on its own output
    det_in,     \* two reviews of one text: the text and the tools' behaviour
    det_a,      \* the flattened findings of the first review (Nothing before)
    det_b,      \* the flattened findings of the second review
    cache,      \* st.cache_data of cached_ai_review: key -> stored entry
    now,        \* the clock at the click that started this run, in seconds; a
                \* request is taken to last no time on it (its sleeps are in req)
    req,        \* the AI-review request being served
    ad_in,      \* an adapter call on its own: the tool, what its process did, the
                \* position in its diagnostic
    ad_out      \* what that adapter call returned

rvars == <<run_smoke, apply_fixes_before_runtime, warnings_as_errors, next_tool, all_results,
           last_run, ret, smoke>>
avars == <<run_runtime, show_warnings, use_ai, all_findings, tmp_dirs, attempt, ai_calls,
           feedback, probe>>

qvars == <<qf_in, qf_once, qf_twice>>
dvars == <<det_in, det_a, det_b>>
cvars == <<cache, now, req>>
advars == <<ad_in, ad_out>>
xvars == <<qvars, dvars, cvars, advars>>

pvars == <<script, pc, code, language, shown, tmp_files, next_tmp, procs, invoked, report, exc,
           rvars, avars>>

vars == <<pvars, xvars>>

NoResults == [t \in ToolNames |-> <<>>]
NoCall == [cmd |-> <<>>, timeout |-> NoTimeout, kind |-> None, rc |-> NoRc, out |-> "",
           err |-> "", child |-> "none", raised |-> None]
NoRet == [tool |-> None, tmp |-> None, rows |-> <<>>, reason |-> None, raised |-> None]
NoCache == <<>>
NoReq == Nothing

\* The page before the button is clicked, and the other variables at rest.
PageIdle ==
    /\ pc = "idle"
    /\ code = <<>>
    /\ language = None
    /\ run_smoke = FALSE /\ apply_fixes_before_runtime = FALSE /\ warnings_as_errors = FALSE
    /\ next_tool = 1
    /\ all_results = NoResults
    /\ shown = {}
    /\ tmp_files = {}
    /\ next_tmp = 1
    /\ procs = {}
    /\ invoked = <<>>
    /\ last_run = NoCall
    /\ ret = NoRet
    /\ smoke = Nothing
    /\ report = Nothing
    /\ exc = None
    /\ run_runtime = FALSE /\ show_warnings = FALSE /\ use_ai = FALSE
    /\ all_findings = NoFindings
    /\ tmp_dirs = {}
    /\ attempt = 0
    /\ ai_calls = 0
    /\ feedback = None
    /\ probe = Nothing

QuickFixIdle == qf_in = <<>> /\ qf_once = Nothing /\ qf_twice = Nothing
TwoReviewsIdle == det_in = Nothing /\ det_a = Nothing /\ det_b = Nothing
CacheIdle == cache = NoCache /\ now = 0 /\ req = NoReq
AdapterIdle == ad_in = Nothing /\ ad_out = Nothing

Init ==
    /\ script \in {"llm_reviewer", "app"}
    /\ PageIdle
    /\ QuickFixIdle
    /\ TwoReviewsIdle
    /\ CacheIdle
    /\ AdapterIdle

\* the number of external tools that have reported a finding so far
Reporting(all) == Cardinality({k \in 1..Len(Tools) : all[Tools[k]] # <<>>})

(***************************************************************************)
(* llm_reviewer.py: the run-review block, one action per stage             *)
(***************************************************************************)
\* lines 548-570: the button is clicked with some text in the page
ReviewerClick ==
    /\ script = "llm_reviewer" /\ pc = "idle"
    /\ \E src \in Snippets, lang \in Languages, uploaded_py \in BOOLEAN :
        /\ code' = src
        /\ IF Strip(src) = <<>>
           THEN /\ shown' = shown \cup {"Please paste code or upload a file first."}
                /\ pc' = "stopped"
                /\ language' = None
           ELSE IF DetectLanguage(lang, uploaded_py, src) # "Python"
           THEN /\ shown' = shown \cup {"This checker focuses on Python."}
                /\ pc' = "stopped"
                /\ language' = DetectLanguage(lang, uploaded_py, src)
           ELSE /\ shown' = shown \cup {"Running"}
                /\ pc' = "parso"
                /\ language' = "Python"
    /\ UNCHANGED <<avars, script, xvars, run_smoke, apply_fixes_before_runtime, warnings_as_errors, next_tool,
                   all_results, tmp_files, next_tmp, procs, invoked, last_run, ret, smoke,
                   report, exc>>

\* analyze, lines 515-517 and 521
CheckParso ==
    /\ script = "llm_reviewer" /\ pc = "parso"
    /\ \E installed \in BOOLEAN :
        LET a == check_parso(code, installed)
        IN /\ all_results' = [all_results EXCEPT !["parso"] = a.rows]
           /\ shown' = IF a.reason # None THEN shown \cup {a.reason} ELSE shown
    /\ pc' = "ast"
    /\ UNCHANGED <<avars, script, xvars, code, language, run_smoke, apply_fixes_before_runtime,
                   warnings_as_errors, next_tool, tmp_files, next_tmp, procs, invoked,
                   last_run, ret, smoke, report, exc>>

\* analyze, line 519
CheckAst ==
    /\ script = "llm_reviewer" /\ pc = "ast"
    /\ LET a == check_ast_syntax(code)
       IN IF a.raised # None
          THEN /\ pc' = "raised" /\ exc' = a.raised /\ UNCHANGED all_results
          ELSE /\ pc' = "tokenize" /\ exc' = exc
               /\ all_results' = [all_results EXCEPT !["AST"] = a.rows]
    /\ UNCHANGED <<avars, script, xvars, code, language, run_smoke, apply_fixes_before_runtime,
                   warnings_as_errors, next_tool, shown, tmp_files, next_tmp, procs, invoked,
                   last_run, ret, smoke, report>>

\* analyze, line 520
CheckTokenize ==
    /\ script = "llm_reviewer" /\ pc = "tokenize"
    /\ LET a == check_tokenize(code)
       IN IF a.raised # None
          THEN /\ pc' = "raised" /\ exc' = a.raised /\ UNCHANGED all_results
          ELSE /\ pc' = "adapters" /\ exc' = exc
               /\ all_results' = [all_results EXCEPT !["tokenize"] = a.rows]
    /\ UNCHANGED <<avars, script, xvars, code, language, run_smoke, apply_fixes_before_runtime,
                   warnings_as_errors, next_tool, shown, tmp_files, next_tmp, procs, invoked,
                   last_run, ret, smoke, report>>

\* analyze, lines 522-530: one adapter call, from _tmp_py to the finally
\* clause.  The temporary file exists from the moment it is opened; a failed
\* write leaves _tmp_py before the adapter's try block is entered.
RunAdapter ==
    /\ script = "llm_reviewer" /\ pc = "adapters"
    /\ \E w \in WriteOutcomes, o \in ProcOutcomes :
        LET tool == Tools[next_tool]
            tmp == TmpNames[next_tmp]
            cmd == <<ToolCmd(tool), tmp>>
            r == _run(cmd, ToolTimeout(tool), o)
            a == AdapterBody(tool, tmp, r)
        IN /\ (a.rows # <<>> => Reporting(all_results) < MaxReporting)
           /\ IF w = "fail"
              THEN /\ tmp_files' = tmp_files \cup {tmp}
                   /\ ret' = [tool |-> tool, tmp |-> tmp, rows |-> <<>>, reason |-> None,
                              raised |-> "OSError"]
                   /\ pc' = "raised" /\ exc' = "OSError"
                   /\ UNCHANGED <<all_results, next_tool, procs, invoked, last_run>>
              ELSE /\ tmp_files' = tmp_files
                   /\ invoked' = Append(invoked, [cmd |-> cmd, timeout |-> ToolTimeout(tool)])
                   /\ last_run' = [cmd |-> cmd, timeout |-> ToolTimeout(tool), kind |-> o.kind,
                                   rc |-> r.rc, out |-> r.out, err |-> r.err, child |-> r.child,
                                   raised |-> r.raised]
                   /\ procs' = IF r.child = "running" THEN procs \cup {tmp} ELSE procs
                   /\ ret' = [tool |-> tool, tmp |-> tmp, rows |-> a.rows, reason |-> a.reason,
                              raised |-> a.raised]
                   /\ IF a.raised # None
                      THEN /\ pc' = "raised" /\ exc' = a.raised
                           /\ UNCHANGED <<all_results, next_tool>>
                      ELSE /\ all_results' = [all_results EXCEPT ![tool] = a.rows]
                           /\ exc' = exc
                           /\ IF next_tool = Len(Tools)
                              THEN pc' = "analyzed" /\ next_tool' = next_tool
                              ELSE pc' = "adapters" /\ next_tool' = next_tool + 1
    /\ next_tmp' = next_tmp + 1
    /\ UNCHANGED <<avars, script, xvars, code, language, run_smoke, apply_fixes_before_runtime,
                   warnings_as_errors, shown, smoke, report>>

\* line 572: analyze returns the dictionary; its locals are gone
AnalyzeReturn ==
    /\ script = "llm_reviewer" /\ pc = "analyzed"
    /\ pc' = "smoke"
    /\ ret' = NoRet
    /\ last_run' = NoCall
    /\ UNCHANGED <<avars, script, xvars, code, language, run_smoke, apply_fixes_before_runtime,
                   warnings_as_errors, next_tool, all_results, shown, tmp_files, next_tmp,
                   procs, invoked, smoke, report, exc>>

\* lines 573-576: run_smoke_test with the sidebar's toggles
RunSmokeTest ==
    /\ script = "llm_reviewer" /\ pc = "smoke"
    /\ \E enabled \in BOOLEAN, maybe_fix \in BOOLEAN, wae \in BOOLEAN,
          w \in WriteOutcomes, o \in PyRunOutcomes :
        LET tmp == TmpNames[next_tmp]
            res == run_smoke_test(code, maybe_fix, wae, enabled, tmp, w, o)
        IN /\ run_smoke' = enabled
           /\ apply_fixes_before_runtime' = maybe_fix
           /\ warnings_as_errors' = wae
           /\ smoke' = Some(res)
           /\ tmp_files' = IF res.wrote /\ res.cmd = <<>> THEN tmp_files \cup {tmp} ELSE tmp_files
           /\ next_tmp' = IF res.wrote THEN next_tmp + 1 ELSE next_tmp
           /\ invoked' = IF res.cmd # <<>>
                         THEN Append(invoked, [cmd |-> res.cmd, timeout |-> SmokeTimeout])
                         ELSE invoked
           /\ last_run' = IF res.cmd # <<>>
                          THEN [cmd |-> res.cmd, timeout |-> SmokeTimeout, kind |-> o.kind,
                                rc |-> res.r.rc, out |-> res.r.out, err |-> res.r.err,
                                child |-> res.r.child, raised |-> res.r.raised]
                          ELSE last_run
           /\ procs' = IF res.r.child = "running" THEN procs \cup {tmp} ELSE procs
           /\ IF res.raised # None
              THEN /\ pc' = "raised" /\ exc' = res.raised /\ UNCHANGED all_results
              ELSE /\ pc' = "report" /\ exc' = exc
                   /\ all_results' = [all_results EXCEPT !["Runtime"] = res.rows]
    /\ UNCHANGED <<avars, script, xvars, code, language, next_tool, shown, ret, report>>

\* lines 578-625: the unified table, the per-tool sections, the runtime notes
ReviewerReport ==
    /\ script = "llm_reviewer" /\ pc = "report"
    /\ report' = Some([combined |-> flatten(all_results),
                       sections |-> [t \in ToolNames |->
                                       IF all_results[t] # <<>> THEN "table"
                                       ELSE "No findings or tool not installed / not applicable."],
                       diff |-> IF smoke[1].diff_text \notin {None, ""}
                                THEN smoke[1].diff_text ELSE None])
    /\ shown' = IF smoke[1].note # None THEN shown \cup {smoke[1].note} ELSE shown
    /\ pc' = "done"
    /\ UNCHANGED <<avars, script, xvars, code, language, run_smoke, apply_fixes_before_runtime,
                   warnings_as_errors, next_tool, all_results, tmp_files, next_tmp, procs,
                   invoked, last_run, ret, smoke, exc>>

(***************************************************************************)
(* app.py: the run-review block, one action per stage                      *)
(***************************************************************************)
\* lines 453-467: the button is clicked; empty input is rejected, foreign
\* languages get the limited notice and the run ends
AppClick ==
    /\ script = "app" /\ pc = "idle"
    /\ \E src \in Snippets, lang \in Languages, name_py \in BOOLEAN :
        /\ code' = src
        /\ IF Strip(src) = <<>>
           THEN /\ shown' = shown \cup {"Please paste code or upload a file first."}
                /\ pc' = "stopped"
                /\ language' = None
           ELSE IF detect_language(lang, name_py, src) # "Python"
           THEN /\ shown' = shown \cup {"Non-Python detected."}
                /\ pc' = "done"
                /\ language' = detect_language(lang, name_py, src)
           ELSE /\ shown' = shown
                /\ pc' = "compile"
                /\ language' = "Python"
    /\ UNCHANGED <<rvars, avars, script, xvars, tmp_files, next_tmp, procs, invoked, report, exc>>

\* lines 469-474
AppCompileCheck ==
    /\ script = "app" /\ pc = "compile"
    /\ all_findings' = [all_findings EXCEPT !.compile = compile_check(code)]
    /\ pc' = "runtime"
    /\ UNCHANGED <<rvars, script, probe, xvars, code, language, shown, tmp_files, next_tmp, procs, invoked,
                   report, exc, run_runtime, show_warnings, use_ai, tmp_dirs, attempt,
                   ai_calls, feedback>>

\* lines 476-502: the optional runtime probe, with its two except clauses
AppRuntime ==
    /\ script = "app" /\ pc = "runtime"
    /\ \E enabled \in BOOLEAN, warn \in BOOLEAN, w \in WriteOutcomes, o \in ProbeOutcomes :
        LET dir == TmpNames[next_tmp]
            res == run_runtime_probe(code, warn, w, o)
            first_exc == parse_first_exception(res.stderr)
        IN /\ run_runtime' = enabled
           /\ show_warnings' = warn
           /\ IF enabled /\ ~HasBlockers(all_findings.compile)
              THEN /\ next_tmp' = next_tmp + 1
                   /\ probe' = Some([rc |-> res.rc, stderr |-> res.stderr, raised |-> res.raised])
                   /\ tmp_dirs' = IF res.dir_left THEN tmp_dirs \cup {dir} ELSE tmp_dirs
                   /\ invoked' = IF res.ran
                                 THEN Append(invoked, [cmd |-> ProbeCmd(warn),
                                                       timeout |-> ProbeTimeout])
                                 ELSE invoked
                   /\ procs' = IF res.child = "running" THEN procs \cup {dir} ELSE procs
                   /\ CASE res.raised = "TimeoutExpired" ->
                             /\ shown' = shown \cup {"Runtime probe timed out"}
                             /\ UNCHANGED all_findings
                        [] res.raised \notin {None, "TimeoutExpired"} ->
                             /\ shown' = shown \cup {"Runtime probe error"}
                             /\ UNCHANGED all_findings
                        [] OTHER ->
                             /\ all_findings' =
                                  [all_findings EXCEPT
                                     !.runtime = IF first_exc # Nothing
                                                 THEN Append(@, first_exc[1]) ELSE @,
                                     !.warnings = IF warn THEN parse_warnings(res.stderr)
                                                  ELSE @]
                             /\ shown' = IF first_exc = Nothing
                                         THEN shown \cup {"No exception raised in short probe."}
                                         ELSE shown
              ELSE /\ shown' = shown \cup {"Skipping runtime probe (blocked or disabled)"}
                   /\ UNCHANGED <<next_tmp, tmp_dirs, invoked, procs, all_findings, probe>>
    /\ pc' = "ruff"
    /\ UNCHANGED <<rvars, script, xvars, code, language, tmp_files, report, exc, use_ai, attempt,
                   ai_calls, feedback>>

\* lines 504-521: Ruff, with its two except clauses; the temporary file is
\* created (and written) before run_ruff_on_code enters its try block
AppRuff ==
    /\ script = "app" /\ pc = "ruff"
    /\ \E w \in WriteOutcomes, o \in ProcOutcomes :
        LET tmp == TmpNames[next_tmp]
            res == run_ruff_on_code(tmp, o)
        IN IF w = "fail"
           THEN /\ tmp_files' = tmp_files \cup {tmp}
                /\ shown' = shown \cup {"Ruff error"}
                /\ pc' = "security"
                /\ UNCHANGED <<invoked, procs, all_findings>>
           ELSE /\ invoked' = Append(invoked, [cmd |-> <<"ruff", tmp>>, timeout |-> NoTimeout])
                /\ IF res.blocked
                   THEN /\ pc' = "blocked"
                        /\ procs' = procs \cup {tmp}
                        /\ tmp_files' = tmp_files \cup {tmp}
                        /\ UNCHANGED <<shown, all_findings>>
                   ELSE /\ pc' = "security"
                        /\ procs' = procs
                        /\ tmp_files' = tmp_files
                        /\ shown' = CASE res.raised = "FileNotFoundError" ->
                                             shown \cup {"Ruff not installed."}
                                      [] res.raised \notin {None, "FileNotFoundError"} ->
                                             shown \cup {"Ruff error"}
                                      [] res.rows = <<>> -> shown \cup {"No Ruff issues found."}
                                      [] OTHER -> shown
                        /\ all_findings' =
                             [all_findings EXCEPT
                                !.ruff = IF res.raised = None /\ res.rows # <<>>
                                         THEN <<RuffRecord(res.rows[1])>> ELSE @]
    /\ next_tmp' = next_tmp + 1
    /\ UNCHANGED <<rvars, script, probe, xvars, code, language, report, exc, run_runtime, show_warnings,
                   use_ai, tmp_dirs, attempt, ai_calls, feedback>>

\* lines 523-531
AppSecurity ==
    /\ script = "app" /\ pc = "security"
    /\ all_findings' = [all_findings EXCEPT !.security = run_static_scans(code)]
    /\ pc' = "ai"
    /\ UNCHANGED <<rvars, script, probe, xvars, code, language, shown, tmp_files, next_tmp, procs, invoked,
                   report, exc, run_runtime, show_warnings, use_ai, tmp_dirs, attempt,
                   ai_calls, feedback>>

\* lines 533-541, 396 and 398-402: the AI toggle; cached_ai_review is
\* answered from the cache, or returns at once when there is no API key, or
\* enters its loop
AppAiStart ==
    /\ script = "app" /\ pc = "ai"
    /\ \E enabled \in BOOLEAN, has_key \in BOOLEAN :
        /\ use_ai' = enabled
        /\ IF ~enabled
           THEN pc' = "export" /\ UNCHANGED <<feedback, cache, req>>
           ELSE LET key == CacheKey(code, language)
                    hit == CacheHit(cache, key, now)
                    r == NewRequest(req, key, now, hit \/ has_key)
                    no_key == "No OPENAI_API_KEY found."
                IN IF hit
                   THEN /\ pc' = "export"
                        /\ feedback' = cache[key].text
                        /\ cache' = cache
                        /\ req' = Some(Served(r, cache[key].text, FALSE, now))
                   ELSE IF ~has_key
                   THEN /\ pc' = "export"
                        /\ feedback' = no_key
                        /\ cache' = CacheStore(cache, key, no_key, now)
                        /\ req' = Some(Served(r, no_key, TRUE, now))
                   ELSE /\ pc' = "ai_loop"
                        /\ feedback' = feedback
                        /\ cache' = cache
                        /\ req' = Some(r)
    /\ attempt' = 0
    /\ UNCHANGED <<rvars, script, probe, qvars, dvars, advars, now, code, language, shown, tmp_files, next_tmp,
                   procs, invoked, report, exc, run_runtime, show_warnings, all_findings,
                   tmp_dirs, ai_calls>>

\* lines 403-412: one turn of "for attempt in range(6)", or the fall-through;
\* the text the function returns is stored in the cache
AppAiAttempt ==
    /\ script = "app" /\ pc = "ai_loop"
    /\ IF LoopExhausted(attempt)
       THEN LET busy == "AI is busy (rate limited). Please try again shortly."
            IN /\ feedback' = busy
               /\ pc' = "export"
               /\ cache' = CacheStore(cache, req[1].key, busy, now)
               /\ req' = Some(Served(req[1], busy, TRUE, now))
               /\ UNCHANGED <<attempt, ai_calls>>
       ELSE \E a \in AiOutcomes, jitter \in Jitter :
            LET wait == CASE a = "RateLimitError" -> Backoff(attempt, jitter)
                          [] a = "APIError" -> ApiErrorWait
                          [] OTHER -> 0
                r == [req[1] EXCEPT !.last = a, !.wait = wait]
                text == IF a = "ok" THEN "review text" ELSE "AI review error"
            IN /\ ai_calls' = ai_calls + 1
               /\ IF a \in {"ok", "Exception"}
                  THEN /\ feedback' = text
                       /\ pc' = "export"
                       /\ attempt' = attempt
                       /\ cache' = CacheStore(cache, r.key, text, now)
                       /\ req' = Some(Served(r, text, TRUE, now))
                  ELSE /\ feedback' = feedback
                       /\ pc' = "ai_loop"
                       /\ attempt' = attempt + 1
                       /\ cache' = cache
                       /\ req' = Some(r)
    /\ UNCHANGED <<rvars, script, probe, qvars, dvars, advars, now, code, language, shown, tmp_files, next_tmp,
                   procs, invoked, report, exc, run_runtime, show_warnings, use_ai,
                   all_findings, tmp_dirs>>

\* lines 543-545: the export button and the end of the progress display
AppFinish ==
    /\ script = "app" /\ pc = "export"
    /\ report' = Some([findings |-> all_findings, feedback |-> feedback])
    /\ pc' = "done"
    /\ UNCHANGED <<rvars, avars, script, xvars, code, language, shown, tmp_files, next_tmp, procs,
                   invoked, exc>>

Next ==
    \/ ReviewerClick
    \/ CheckParso
    \/ CheckAst
    \/ CheckTokenize
    \/ RunAdapter
    \/ AnalyzeReturn
    \/ RunSmokeTest
    \/ ReviewerReport
    \/ AppClick
    \/ AppCompileCheck
    \/ AppRuntime
    \/ AppRuff
    \/ AppSecurity
    \/ AppAiStart
    \/ AppAiAttempt
    \/ AppFinish

Spec == Init /\ [][Next]_vars

(***************************************************************************)
(* apply_quick_fixes on its own                                            *)
(***************************************************************************)
\* The lines the texts are made of: a statement, a line the "try" pattern
\* accepts (without colon, with colon, with a comment), a triple quote.
L_x == <<"x">>
L_try == <<BS, "t", "r", "y", BS>>
L_try_colon == L_try \o <<":">>
L_try_hash == L_try \o <<"#">>
L_quotes == <<"\"", "\"", "\"">>

QfLines == {L_x, L_try, L_try_colon, L_try_hash, L_quotes}

\* what follows the last line: nothing, a line break, a blank line
Trailers == {<<>>, <<NL>>, <<NL, NL>>}

QfTexts ==
    {Join(<<NL>>, ls) \o t : ls \in UNION {[1..n -> QfLines] : n \in 0..MaxLines},
                             t \in Trailers}

\* compile(src, "<input>", "exec") on those texts: a triple quote opens or
\* closes a string literal; outside a literal only blank lines and the
\* statement are accepted; the literal must be closed at the end.
RECURSIVE CompileLines(_, _, _)
CompileLines(lines, k, in_string) ==
    IF k > Len(lines) THEN (IF in_string THEN "SyntaxError" ELSE "ok")
    ELSE IF lines[k] = L_quotes THEN CompileLines(lines, k + 1, ~in_string)
    ELSE IF in_string \/ lines[k] \in {<<>>, L_x} THEN CompileLines(lines, k + 1, in_string)
    ELSE "SyntaxError"

PyCompileLines(src) == CompileLines(SplitLines(src), 1, FALSE)

QuickFixInit ==
    /\ script = "llm_reviewer"
    /\ PageIdle
    /\ qf_in \in QfTexts /\ qf_once = Nothing /\ qf_twice = Nothing
    /\ TwoReviewsIdle
    /\ CacheIdle
    /\ AdapterIdle

\* fixed, edited = apply_quick_fixes(qf_in)
QuickFixOnce ==
    /\ qf_once = Nothing
    /\ qf_once' = Some(apply_quick_fixes(qf_in))
    /\ UNCHANGED <<pvars, qf_in, qf_twice, dvars, cvars, advars>>

\* apply_quick_fixes(fixed)
QuickFixTwice ==
    /\ qf_once # Nothing /\ qf_twice = Nothing
    /\ qf_twice' = Some(apply_quick_fixes(qf_once[1].fixed))
    /\ UNCHANGED <<pvars, qf_in, qf_once, dvars, cvars, advars>>

QuickFixNext ==
    \/ QuickFixOnce
    \/ QuickFixTwice

QuickFixSpec == QuickFixInit /\ [][QuickFixNext]_vars

(***************************************************************************)
(* Two reviews of one text (llm_reviewer.py)                               *)
(***************************************************************************)
\* a tool that runs and prints nothing
Quiet == [kind |-> "exit", rc |-> 0, out |-> "", err |-> ""]

\* tempfile.NamedTemporaryFile picks the names: the names of one review,
\* one per adapter and one for the smoke test
NameOffsets == {0, 1}
NamesFrom(off) == [k \in 1..(Len(Tools) + 1) |-> TmpNames[k + off]]

ToolIndex(tool) == CHOOSE k \in 1..Len(Tools) : Tools[k] = tool

\* analyze: what each detector and adapter hands back, given the tools'
\* behaviour outs and the names of the temporary files
analyze(code_text, installed, outs, names) ==
    [t \in ToolNames \ {"Runtime"} |->
        CASE t = "AST" -> check_ast_syntax(code_text)
          [] t = "tokenize" -> check_tokenize(code_text)
          [] t = "parso" -> check_parso(code_text, installed)
          [] OTHER ->
               LET k == ToolIndex(t)
               IN AdapterBody(t, names[k],
                              _run(<<ToolCmd(t), names[k]>>, ToolTimeout(t), outs[k]))]

\* lines 572-578 with the probe left disabled: the flattened findings, or
\* the exception that ended the run
ReviewFindings(code_text, installed, outs, names) ==
    LET a == analyze(code_text, installed, outs, names)
        failed == {t \in DOMAIN a : a[t].raised # None}
        runtime == run_smoke_test(code_text, FALSE, FALSE, FALSE, names[Len(Tools) + 1],
                                  "ok", Quiet)
    IN IF failed # {}
       THEN [raised |-> TRUE, combined |-> <<>>]
       ELSE [raised |-> FALSE,
             combined |-> flatten([t \in ToolNames |->
                                     IF t = "Runtime" THEN runtime.rows ELSE a[t].rows])]

\* one tool behaves as the environment chooses, the others stay quiet
TwoReviewsInit ==
    /\ script = "llm_reviewer"
    /\ PageIdle
    /\ QuickFixIdle
    /\ CacheIdle
    /\ AdapterIdle
    /\ \E src \in {S_import, S_if}, installed \in BOOLEAN, k \in 1..Len(Tools),
          o \in ProcOutcomes, na \in NameOffsets, nb \in NameOffsets :
          det_in = Some([code |-> src, installed |-> installed,
                         outs |-> [i \in 1..Len(Tools) |-> IF i = k THEN o ELSE Quiet],
                         names_a |-> NamesFrom(na), names_b |-> NamesFrom(nb)])
    /\ det_a = Nothing /\ det_b = Nothing

FirstReview ==
    /\ det_in # Nothing /\ det_a = Nothing
    /\ det_a' = Some(ReviewFindings(det_in[1].code, det_in[1].installed, det_in[1].outs,
                                    det_in[1].names_a))
    /\ UNCHANGED <<pvars, qvars, det_in, det_b, cvars, advars>>

SecondReview ==
    /\ det_a # Nothing /\ det_b = Nothing
    /\ det_b' = Some(ReviewFindings(det_in[1].code, det_in[1].installed, det_in[1].outs,
                                    det_in[1].names_b))
    /\ UNCHANGED <<pvars, qvars, det_in, det_a, cvars, advars>>

TwoReviewsNext ==
    \/ FirstReview
    \/ SecondReview

TwoReviewsSpec == TwoReviewsInit /\ [][TwoReviewsNext]_vars

(***************************************************************************)
(* Repeated AI-review requests (app.py)                                    *)
(***************************************************************************)
\* the texts reviewed, and the seconds that pass between two reviews
CacheTexts == {S_import, S_if}
Gaps == {70, 130}

\* A review of src has reached the AI stage: the probe was left disabled and
\* Ruff was not found.
AiStageReached(src) ==
    /\ pc = "ai"
    /\ code = src
    /\ language = "Python"
    /\ run_smoke = FALSE /\ apply_fixes_before_runtime = FALSE /\ warnings_as_errors = FALSE
    /\ next_tool = 1
    /\ all_results = NoResults
    /\ shown = {"Skipping runtime probe (blocked or disabled)", "Ruff not installed."}
    /\ tmp_files = {}
    /\ next_tmp = 2
    /\ procs = {}
    /\ invoked = <<[cmd |-> <<"ruff", "tmp1">>, timeout |-> NoTimeout]>>
    /\ last_run = NoCall
    /\ ret = NoRet
    /\ smoke = Nothing
    /\ report = Nothing
    /\ exc = None
    /\ run_runtime = FALSE /\ show_warnings = FALSE /\ use_ai = FALSE
    /\ all_findings = [NoFindings EXCEPT !.compile = compile_check(src)]
    /\ tmp_dirs = {}
    /\ attempt = 0
    /\ ai_calls = 0
    /\ feedback = None
    /\ probe = Nothing

CacheInit ==
    /\ script = "app"
    /\ \E src \in CacheTexts : AiStageReached(src)
    /\ QuickFixIdle
    /\ TwoReviewsIdle
    /\ CacheIdle
    /\ AdapterIdle

\* The button is clicked again some time later, in the same server process:
\* the script runs anew and its stages before the AI review go as before.
ReviewAgain ==
    /\ script = "app" /\ pc = "done" /\ language = "Python"
    /\ \E src \in CacheTexts, gap \in Gaps :
        /\ now + gap <= MaxClock
        /\ now' = now + gap
        /\ code' = src
        /\ all_findings' = [NoFindings EXCEPT !.compile = compile_check(src)]
    /\ invoked' = <<[cmd |-> <<"ruff", TmpNames[next_tmp]>>, timeout |-> NoTimeout]>>
    /\ next_tmp' = next_tmp + 1
    /\ pc' = "ai"
    /\ feedback' = None
    /\ attempt' = 0
    /\ report' = Nothing
    /\ ai_calls' = 0
    /\ UNCHANGED <<rvars, script, probe, qvars, dvars, advars, cache, req, language, shown, tmp_files, procs,
                   exc, run_runtime, show_warnings, use_ai, tmp_dirs>>

CacheNext ==
    \/ AppAiStart
    \/ AppAiAttempt
    \/ AppFinish
    \/ ReviewAgain

CacheSpec == CacheInit /\ [][CacheNext]_vars

(***************************************************************************)
(* One adapter call, for every position a diagnostic can carry             *)
(***************************************************************************)
\* the line and the column of the diagnostic in the tool's output, as the
\* tool counts them; NoneNum: the key is missing
ItemRows == {NoneNum, 1, 3}
ItemColumns == {NoneNum, 0, 1, 4}

AdapterInit ==
    /\ script = "llm_reviewer"
    /\ PageIdle
    /\ QuickFixIdle
    /\ TwoReviewsIdle
    /\ CacheIdle
    /\ \E tool \in ToolNames \ {"AST", "tokenize", "parso", "Runtime"}, o \in ProcOutcomes,
          row \in ItemRows, column \in ItemColumns :
          ad_in = Some([tool |-> tool, o |-> o, row |-> row, column |-> column])
    /\ ad_out = Nothing

\* rows, reason = run_<tool>(code_text)
AdapterCall ==
    /\ ad_in # Nothing /\ ad_out = Nothing
    /\ LET in == ad_in[1]
           tmp == TmpNames[1]
           r == _run(<<ToolCmd(in.tool), tmp>>, ToolTimeout(in.tool), in.o)
           item == [ToolItem(tmp) EXCEPT !.row = in.row, !.column = in.column]
       IN ad_out' = Some(AdapterRows(in.tool, tmp, r, item))
    /\ UNCHANGED <<pvars, qvars, dvars, cvars, ad_in>>

AdapterNext == AdapterCall

AdapterSpec == AdapterInit /\ [][AdapterNext]_vars

(***************************************************************************)
(* Properties                                                              *)
(***************************************************************************)
\* the last _run call was made by the adapter call recorded in ret
RunOfLastAdapter ==
    /\ ret.tool # None
    /\ Len(last_run.cmd) = 2
    /\ last_run.cmd[2] = ret.tmp

IsBlank(s) == \A k \in 1..Len(s) : s[k] \in Whitespace

InvokedCommands == {invoked[k].cmd[1] : k \in 1..Len(invoked)}

SkipReasons == {"Runtime test disabled",
                "Skipped runtime (does not compile, even after quick fixes)",
                "Skipped runtime (does not compile; enable quick fixes to attempt)"}

\* C1: every tool adapter returns normally, whatever _run handed it; when the
\* tool's stdout is not in the tool's format the finding list is empty.
C1_AdaptersNeverRaise ==
    RunOfLastAdapter =>
        /\ ret.raised = None
        /\ (last_run.out = "garbage" => ret.rows = <<>>)

\* C2: no failure of a tool (missing, timed out, malformed output) ends the
\* script run with an exception: the review goes on to its report.
C2_ToolFailuresDoNotPropagate ==
    (RunOfLastAdapter /\ (last_run.kind \in {"notfound", "timeout"} \/ last_run.out = "garbage")) =>
        /\ pc # "raised"
        /\ exc = None

\* C3: when the tool is not installed the adapter returns no finding and a
\* reason, and the review keeps that reason for the tool (it is shown), so
\* that "unavailable" differs from "ran and found nothing".
C3_UnavailableReasonKept ==
    (RunOfLastAdapter /\ last_run.kind = "notfound") =>
        /\ ret.rows = <<>>
        /\ ret.reason # None
        /\ ret.reason \in shown

\* C4: for a command whose executable is not found, _run returns exit code
\* 127, empty stdout and a non-empty stderr, and raises nothing.
C4_NotFoundSentinel ==
    last_run.kind = "notfound" =>
        /\ last_run.rc = 127
        /\ last_run.out = ""
        /\ last_run.err # ""
        /\ last_run.raised = None
        /\ exc # "FileNotFoundError"

C4_Witness ==
    /\ last_run.kind = "notfound"
    /\ last_run.cmd[1] = "mypy"
    /\ last_run.err = "mypy: not installed"

\* C5: for a command that outlives its timeout, _run returns exit code 124,
\* empty stdout and stderr "timeout", raises nothing, and the spawned process
\* is not running any more.
C5_TimeoutSentinel ==
    last_run.kind = "timeout" =>
        /\ last_run.rc = 124
        /\ last_run.out = ""
        /\ last_run.err = "timeout"
        /\ last_run.raised = None
        /\ last_run.child # "running"
        /\ (script = "llm_reviewer" => procs = {})

C5_Witness ==
    /\ last_run.kind = "timeout"
    /\ last_run.cmd[1] = "python"
    /\ last_run.timeout = SmokeTimeout

\* C6: once an adapter or probe invocation has returned or raised, the
\* temporary source file it created is gone; no temporary file is left
\* when a review has ended.
C6_TempFilesRemoved ==
    pc # "blocked" => tmp_files = {}

\* C7: a review of empty or whitespace-only text is rejected with exactly one
\* message; no check, adapter, probe or AI call runs and no report is made.
C7_EmptyInputRejected ==
    (pc # "idle" /\ IsBlank(code)) =>
        /\ pc = "stopped"
        /\ shown = {"Please paste code or upload a file first."}
        /\ invoked = <<>>
        /\ all_results = NoResults
        /\ all_findings = NoFindings
        /\ smoke = Nothing
        /\ ai_calls = 0
        /\ feedback = None
        /\ report = Nothing
        /\ tmp_files = {} /\ tmp_dirs = {}

C7_Witness ==
    /\ pc = "stopped"
    /\ code = S_blank

\* C8: with the runtime probe switched off, the probe hands back the
\* "disabled" reason and nothing else, applies no quick fix and spawns no
\* process, whatever the text and the other two toggles.
C8_DisabledProbe ==
    /\ (script = "llm_reviewer" /\ smoke # Nothing /\ ~run_smoke) =>
          /\ smoke[1].note = "Runtime test disabled"
          /\ smoke[1].raised = None
          /\ smoke[1].rows = <<>>
          /\ smoke[1].used_code = Nothing
          /\ smoke[1].diff_text = None
          /\ smoke[1].edited = Nothing
          /\ smoke[1].cmd = <<>>
          /\ ~smoke[1].wrote
          /\ "python" \notin InvokedCommands
          /\ all_results["Runtime"] = <<>>
    /\ (script = "app" /\ language = "Python" /\ ~run_runtime
            /\ pc \notin {"idle", "stopped", "compile", "runtime"}) =>
          /\ "Skipping runtime probe (blocked or disabled)" \in shown
          /\ all_findings.runtime = <<>>
          /\ all_findings.warnings = <<>>
          /\ "PY_EXE" \notin InvokedCommands
          /\ tmp_dirs = {}

C8_Witness ==
    /\ script = "llm_reviewer"
    /\ smoke # Nothing
    /\ ~run_smoke /\ apply_fixes_before_runtime /\ warnings_as_errors
    /\ code = S_bs

C10_IfHeaderFixedAndRun ==
    (script = "llm_reviewer" /\ code = S_if /\ smoke # Nothing
        /\ run_smoke /\ apply_fixes_before_runtime) =>
        /\ smoke[1].edited # Nothing
        /\ \E k \in 1..Len(smoke[1].edited[1]) : smoke[1].edited[1][k] = 1
        /\ smoke[1].note \notin SkipReasons
        /\ smoke[1].cmd # <<>>
        /\ smoke[1].raised = None

\* C11: apply_quick_fixes returns a text that compiles unchanged, with an
\* empty edit list.
C11_ValidTextUntouched ==
    (qf_once # Nothing /\ PyCompileLines(qf_in) = "ok") =>
        /\ qf_once[1].fixed = qf_in
        /\ qf_once[1].edited = <<>>

\* C12: apply_quick_fixes applied to its own output returns that output
\* again, with an empty edit list.
C12_FixTwiceIsFixOnce ==
    qf_twice # Nothing =>
        /\ qf_twice[1].fixed = qf_once[1].fixed
        /\ qf_twice[1].edited = <<>>

ProbeCommands == {"python", "PY_EXE"}

\* C13: when the execution of the snippet runs past its timeout, the
\* findings of the review hold a runtime finding that says so.
C13_TimeoutIsARuntimeFinding ==
    /\ (script = "llm_reviewer" /\ pc \in {"report", "done"} /\ smoke[1].cmd # <<>>
            /\ last_run.kind = "timeout") =>
          \E k \in 1..Len(all_results["Runtime"]) : all_results["Runtime"][k].Message = "timeout"
    /\ (script = "app" /\ "Runtime probe timed out" \in shown) =>
          all_findings.runtime # <<>>

\* C14: an adapter whose tool timed out (sentinel 124) or printed malformed
\* output contributes no finding, records a note for its tool, and does not
\* end the review.
C14_TransientFailureDegrades ==
    (RunOfLastAdapter /\ (last_run.kind = "timeout" \/ last_run.out = "garbage")) =>
        /\ ret.raised = None
        /\ ret.rows = <<>>
        /\ ret.reason # None
        /\ pc # "raised"

\* C16: while the parse check, a tool adapter or the static scan is still to
\* run, the runtime probe has not been started: the probe comes last, only
\* the AI review may follow it.
C16_ProbeRunsLast ==
    pc \in {"parso", "ast", "tokenize", "adapters", "compile", "ruff", "security"} =>
        InvokedCommands \cap ProbeCommands = {}

\* C17: every subprocess of a review is run with a finite timeout and does
\* not outlive it, so that no review waits for ever on an external tool.
C17_EverySubprocessHasTimeout ==
    /\ \A k \in 1..Len(invoked) : invoked[k].timeout # NoTimeout
    /\ procs = {}
    /\ pc # "blocked"

\* C20: every review of a text that is not blank runs the built-in parse
\* check, whatever language is selected or detected.
C20_ParseCheckAlwaysRuns ==
    [][(pc = "idle" /\ ~IsBlank(code')) => pc' \in {"parso", "compile"}]_vars

\* the AI review of the current run has returned to the page
AiReturned == script = "app" /\ pc \in {"export", "done"} /\ use_ai /\ req # Nothing

\* the requests served before the current one
Earlier == {e \in req[1].log : e.n < req[1].n}

\* the last time the function body ran for the current request's key, if ever
LastComputed ==
    LET mine == {e \in Earlier : e.computed /\ e.key = req[1].key}
    IN IF mine = {} THEN Nothing
       ELSE Some(CHOOSE e \in mine : \A f \in mine : f.n <= e.n)

\* C18: one request of cached_ai_review calls the endpoint at most six times,
\* whatever the endpoint answers; it always hands a text back to the page and
\* raises nothing; and when all six calls failed with a rate-limit or API
\* error the text is the "AI is busy" message.
C18_AtMostSixCallsAlwaysAText ==
    /\ ai_calls <= 6
    /\ AiReturned =>
        /\ feedback # None
        /\ exc = None
        /\ (ai_calls = 6 /\ req[1].last \in {"RateLimitError", "APIError"})
             => feedback = "AI is busy (rate limited). Please try again shortly."

C18_Witness ==
    /\ AiReturned
    /\ ai_calls = 6
    /\ req[1].last = "APIError"
    /\ feedback = "AI is busy (rate limited). Please try again shortly."

\* C19: results are cached per (source text, language) for 120 seconds. A
\* request made less than 120 seconds after the function last ran for the
\* same pair makes no endpoint call and returns the text of that run; a
\* request with no such run (none at all, only runs for other pairs, or a
\* run more than 120 seconds old) runs the function again, which calls the
\* endpoint whenever an API key is present.
C19_CachedPerPairFor120Seconds ==
    AiReturned =>
        LET r == req[1]
            last == LastComputed
            fresh == last # Nothing /\ r.start - last[1].time < 120
        IN /\ fresh => ai_calls = 0 /\ feedback = last[1].text
           /\ ~fresh => /\ \E e \in r.log : e.n = r.n /\ e.computed
                        /\ r.has_key => ai_calls > 0

\* the third request: the first ran the function for the pair, the second
\* was answered from the cache 70 seconds later, a request for the other pair
\* would have run the function, and now, 200 seconds after the first, the
\* function runs again for the same pair
C19_Witness ==
    /\ AiReturned
    /\ req[1].n = 3 /\ req[1].start = 200
    /\ ai_calls > 0
    /\ \E e1, e2 \in Earlier :
        /\ e1.n = 1 /\ e1.computed /\ e1.key = req[1].key /\ e1.time = 0
        /\ e2.n = 2 /\ ~e2.computed /\ e2.key = req[1].key /\ e2.time = 70
        /\ e2.text = e1.text

\* C15: two reviews of the same text, with the same tools available and
\* behaving the same, give the same flattened finding list, record for
\* record and field for field (File included).
C15_SameInputSameFindings ==
    (det_a # Nothing /\ det_b # Nothing) => det_a = det_b

\* C21: _run hands back 127 only for an executable that was not found and
\* 124 only for an expired timeout; an adapter whose tool ran to completion,
\* whatever exit code the tool reported, gives no "not installed" (or "timed
\* out") reason.
C21_SentinelsOnlyForTheirCause ==
    /\ last_run.rc = 127 => last_run.kind = "notfound"
    /\ last_run.rc = 124 => last_run.kind = "timeout"
    /\ (RunOfLastAdapter /\ last_run.kind = "exit") => ret.reason = None

\* no line of the text is a block header that lacks its colon
NoOpenHeader(text) ==
    \A k \in 1..Len(SplitLines(text)) :
        ~(IsHeader(SplitLines(text)[k]) /\ _needs_colon(SplitLines(text)[k]))

\* C22: for a text of one or several lines, with or without a final line
\* break or blank last lines, in which no line is a block header lacking its
\* colon, apply_quick_fixes returns the text character for character and an
\* empty edit list.
C22_NothingToFixNothingChanged ==
    (qf_once # Nothing /\ NoOpenHeader(qf_in)) =>
        /\ qf_once[1].edited = <<>>
        /\ Len(qf_once[1].fixed) = Len(qf_in)
        /\ \A k \in 1..Len(qf_in) : qf_once[1].fixed[k] = qf_in[k]

\* C23: the edit list of apply_quick_fixes is strictly increasing and
\* 1-based, the returned text has as many lines as the input, and a line
\* differs between input and output exactly when its number is in the list.
C23_EditListIsTheChangedLines ==
    qf_once # Nothing =>
        LET before == SplitLines(qf_in)
            after == SplitLines(qf_once[1].fixed)
            edited == qf_once[1].edited
        IN /\ \A k \in 1..Len(edited) : edited[k] >= 1 /\ edited[k] <= Len(before)
           /\ \A k \in 1..(Len(edited) - 1) : edited[k] < edited[k + 1]
           /\ Len(after) = Len(before)
           /\ \A n \in 1..Len(before) :
                (\E k \in 1..Len(edited) : edited[k] = n) <=> after[n] # before[n]

\* C24: in cached_ai_review, after the RateLimitError of turn k (0..5) the
\* client asks for a sleep of at least 2^k and less than 2^k + 1 seconds;
\* after another APIError for 2 seconds; after any other exception it sleeps
\* not at all, returns the error text and makes no further call.  Waits are
\* in tenths of a second; attempt is the number of failed turns so far, in
\* the run that serves the request.
C24_BackoffWaits ==
    (req # Nothing /\ use_ai /\ pc \in {"ai_loop", "export", "done"}) =>
        LET r == req[1]
            k == attempt - 1
        IN /\ r.last = "RateLimitError" =>
                /\ k \in 0..5
                /\ r.wait >= 10 * (2 ^ k)
                /\ r.wait < 10 * (2 ^ k + 1)
           /\ r.last = "APIError" => r.wait = 20
           /\ r.last = "Exception" =>
                /\ r.wait = 0
                /\ pc # "ai_loop"
                /\ AiReturned => feedback = "AI review error"

\* the sixth turn was rate limited after five earlier failures: the longest
\* wait, 32.9 seconds
C24_Witness ==
    /\ req # Nothing /\ use_ai /\ pc = "ai_loop"
    /\ req[1].last = "RateLimitError"
    /\ attempt = 6
    /\ req[1].wait = 329

\* pylint counts columns from 0 in its JSON output; ruff and mypy, the other
\* tools whose column is stored, count from 1
ZeroBasedColumn(tool) == tool = "Pylint"
KeepsColumn(tool) == tool \in {"Ruff", "mypy", "Pylint"}

\* C25: in every finding record of every adapter the line and the column are
\* 1-based: a column the tool counts from 0 is stored as that number plus
\* one, a 1-based position is stored as it is, a missing position is stored
\* as absent, no record holds line or column 0, and Source and Type are not
\* both empty.
C25_PositionsAreOneBased ==
    ad_out # Nothing =>
        \A k \in 1..Len(ad_out[1].rows) :
            LET row == ad_out[1].rows[k]
                in == ad_in[1]
            IN /\ row.Line # 0 /\ row.Column # 0
               /\ row.Source # "" \/ row.Type # ""
               /\ in.tool \in {"Black", "isort"} =>
                    row.Line = EmptyCell /\ row.Column = EmptyCell
               /\ (in.tool \notin {"Black", "isort"} /\ in.row = NoneNum) =>
                    row.Line = EmptyCell
               /\ (in.tool \notin {"Black", "isort"} /\ in.row >= 1) => row.Line = in.row
               /\ (KeepsColumn(in.tool) /\ in.column = NoneNum) => row.Column = EmptyCell
               /\ (KeepsColumn(in.tool) /\ ~ZeroBasedColumn(in.tool) /\ in.column >= 1) =>
                    row.Column = in.column
               /\ (ZeroBasedColumn(in.tool) /\ in.column >= 0) => row.Column = in.column + 1

\* C26: when a tool has run and ended with an exit code that is neither 0
\* nor the not-installed code 127, and its output holds no diagnostic that
\* can be read, the adapter returns at least one finding for that tool.
C26_FailedToolIsReported ==
    (RunOfLastAdapter /\ last_run.kind = "exit" /\ last_run.rc \notin {0, 127}
       /\ last_run.out \in {"", "garbage"}) =>
        /\ ret.raised = None
        /\ ret.rows # <<>>

\* C27: once run_runtime_probe has returned or raised (clean exit, non-zero
\* exit, timeout, failed write of the script), its scratch directory is
\* gone, whatever the snippet left in it.
C27_ScratchDirectoryRemoved ==
    (script = "app" /\ pc \notin {"idle", "compile", "runtime"}) => tmp_dirs = {}

\* C28: app.py adds a runtime-exception finding only when the probed process
\* ended with a non-zero exit code; a run that ends with code 0 and has only
\* warning text on its error stream leaves the runtime section empty and
\* shows "no exception raised".
C28_RuntimeFindingNeedsFailure ==
    (script = "app" /\ probe # Nothing) =>
        /\ all_findings.runtime # <<>> => probe[1].rc \notin {0, NoRc}
        /\ (probe[1].rc = 0 /\ probe[1].stderr = "Warning") =>
             /\ all_findings.runtime = <<>>
             /\ "No exception raised in short probe." \in shown

\* C29: the runtime probe of app.py is started only for a text compile_check
\* accepted: when compile_check returned an error record, of whatever
\* exception type, no probe process is started.
C29_ProbeOnlyAfterCleanCompile ==
    (script = "app" /\ all_findings.compile # <<>>) =>
        /\ probe = Nothing
        /\ "PY_EXE" \notin InvokedCommands
====
